---- MODULE Spec2Model ----
(***************************************************************************)
(* Model of custom_components/nationalrailuktb/config_flow.py: the Setup   *)
(* Wizard (ConfigFlow.async_step_user), the Options Editor                 *)
(* (OptionsFlowHandler.async_step_init), validate_input and the Token      *)
(* Store helpers.                                                          *)
(*                                                                         *)
(* Python strings are sequences of one-character strings, so that strip,   *)
(* replace, upper and split are computed rather than assumed.  None is a   *)
(* sequence too (TLC compares only values of one kind), holding a symbol   *)
(* no string contains.                                                     *)
(*                                                                         *)
(* Every handler is one action.  The collaborators' answers (the remote    *)
(* client's outcome on each probe, and in FaultSpec the failure of a       *)
(* Token Store or host call) are inputs of the action.  `calls` is the     *)
(* list of collaborator calls the last handler made, in order, and         *)
(* `result` what it returned (or that it raised).                          *)
(***************************************************************************)
EXTENDS Naturals, Sequences, FiniteSets

VARIABLES
    store,      \* the Token Store's persisted token, or None
    entries,    \* the host's configuration entries, in creation order
    step,       \* the handler that ran last and its input
    calls,      \* the collaborator calls of that handler, in order
    result      \* what that handler returned

vars == <<store, entries, step, calls, result>>

\* Most configuration entries the host holds in the model.
MaxEntries == 2

----------------------------------------------------------------------------
\* Python values

None == <<"<None>">>

\* bool(x) of a str-or-None value
Truthy(x) == x # None /\ x # <<>>

\* a or b
Or(a, b) == IF Truthy(a) THEN a ELSE b

\* str.isspace for one character
IsSpace(c) == c \in {" ", "\t"}

RECURSIVE LStrip(_)
LStrip(s) == IF s # <<>> /\ IsSpace(Head(s)) THEN LStrip(Tail(s)) ELSE s

RECURSIVE RStrip(_)
RStrip(s) ==
    IF s # <<>> /\ IsSpace(s[Len(s)]) THEN RStrip(SubSeq(s, 1, Len(s) - 1)) ELSE s

\* str.strip()
Strip(s) == RStrip(LStrip(s))

IsBlank(c) == c = " "

\* str.replace(" ", "")
ReplaceSpace(s) == SelectSeq(s, LAMBDA c : ~IsBlank(c))

UpperChar(c) ==
    CASE c = "w" -> "W"
      [] c = "c" -> "C"
      [] c = "v" -> "V"
      [] OTHER -> c

\* str.upper()
Upper(s) == [i \in 1..Len(s) |-> UpperChar(s[i])]

\* str.split(","), on a non-empty string
RECURSIVE SplitFrom(_, _)
SplitFrom(s, cur) ==
    IF s = <<>> THEN <<cur>>
    ELSE IF Head(s) = "," THEN <<cur>> \o SplitFrom(Tail(s), <<>>)
    ELSE SplitFrom(Tail(s), Append(cur, Head(s)))

Split(s) == SplitFrom(s, <<>>)

----------------------------------------------------------------------------
\* Inputs

\* API tokens a user may type; the empty string is one of them
Tokens == {<<>>, <<"k1">>, <<"k2">>}

\* user_input is None
NoInput == [token |-> None, station |-> None, destinations |-> None]

\* Submissions of the Setup Wizard's form.  destinations is None when the
\* optional key is absent.
UserInputs ==
    {[token |-> <<"k1">>, station |-> <<" ", "w", "\t">>, destinations |-> None],
     [token |-> <<"k2">>, station |-> <<"W">>,
      destinations |-> <<"c", ",", " ", "v", " ">>],
     [token |-> <<>>, station |-> <<"W">>, destinations |-> <<>>],
     [token |-> <<"k1">>, station |-> <<" ">>, destinations |-> None]}

\* Submissions of the Options Editor's form, which has no token field.
OptionsInputs ==
    {[token |-> None, station |-> <<" ", "w", "\t">>,
      destinations |-> <<"c", ",", " ", "v", " ">>],
     [token |-> None, station |-> <<"W">>, destinations |-> None],
     [token |-> None, station |-> <<" ">>, destinations |-> <<>>]}

\* what a call of the remote client does
ClientOutcomes == {"ok", "invalid_token", "invalid_input", "error"}

\* the `station` field of a response, None when the response has none
StationNames == {<<"Waterloo">>, None}

\* a response on success, an exception otherwise
Responses ==
    {[out |-> "ok", station |-> n] : n \in StationNames}
        \cup {[out |-> o, station |-> None] : o \in ClientOutcomes \ {"ok"}}

\* The Token Store or host call of a handler that raises, "none" when all work
NoFault == "none"

Faults == {"load", "save", "update", "reload"}

----------------------------------------------------------------------------
\* Records

NoData == [token |-> None, station |-> None, destinations |-> None]

NoInfo == [title |-> None, station_name |-> None]

NoResult ==
    [type |-> "none", step_id |-> "", errors |-> {}, token_default |-> None,
     current_station |-> None, title |-> None, data |-> NoData, exc |-> ""]

\* FlowHandler.async_show_form
async_show_form(step_id, errors, token_default, current_station) ==
    [NoResult EXCEPT !.type = "form", !.step_id = step_id, !.errors = errors,
                     !.token_default = token_default,
                     !.current_station = current_station]

\* FlowHandler.async_create_entry
async_create_entry(title, data) ==
    [NoResult EXCEPT !.type = "create_entry", !.title = title, !.data = data]

\* an exception leaving the handler
Raised(exc) == [NoResult EXCEPT !.type = "raised", !.exc = exc]

\* errors["base"] = tag
BaseError(tag) == {<<"base", tag>>}

\* the exception the remote client raises for an outcome
ClientException(out) ==
    CASE out = "invalid_token" -> "NationalRailClientInvalidToken"
      [] out = "invalid_input" -> "NationalRailClientInvalidInput"
      [] OTHER -> "Exception"

StoreCall(op, token, out) == [op |-> op, token |-> token, out |-> out]

\* NationalRailClient(token, station, dests).async_get_data(), with what it did
ProbeCall(token, station, dests, r) ==
    [op |-> "probe", token |-> token, station |-> station, dests |-> dests,
     out |-> r.out, res |-> r.station]

\* async_create_entry, async_update_entry or async_reload of the entry at index
\* `entry`; `old` is the data the entry holds at the call, `data` and `title`
\* are the arguments
HostCall(op, entry, old, data, title, out) ==
    [op |-> op, entry |-> entry, old |-> old, data |-> data, title |-> title,
     out |-> out]

----------------------------------------------------------------------------
\* Token Store

\* get_stored_token: the token, or the exception of a failing load
get_stored_token(st, fault) ==
    IF fault = "load"
    THEN [exc |-> "Exception", value |-> None,
          calls |-> <<StoreCall("load", None, "raise")>>]
    ELSE [exc |-> "", value |-> st,
          calls |-> <<StoreCall("load", None, "ok")>>]

\* save_token keeping a token that is already stored
save_token_FirstWins(st, token, fault) ==
    IF fault = "save"
    THEN [exc |-> "Exception", store |-> st,
          calls |-> <<StoreCall("save", token, "raise")>>]
    ELSE [exc |-> "", store |-> IF Truthy(st) THEN st ELSE token,
          calls |-> <<StoreCall("save", token, "ok")>>]

\* save_token: the store afterwards, or the exception of a failing save
save_token(st, token, fault) ==
    IF fault = "save"
    THEN [exc |-> "Exception", store |-> st,
          calls |-> <<StoreCall("save", token, "raise")>>]
    ELSE [exc |-> "", store |-> token,
          calls |-> <<StoreCall("save", token, "ok")>>]

----------------------------------------------------------------------------
\* Validator

SentinelStation == <<"W", "A", "T">>

SentinelDestinations == << <<"C", "H", "K">> >>

\* DestinationsList splitting the empty string too
DestinationsList_AlwaysSplit(destinations) == Split(destinations)

\* data[CONF_DESTINATIONS].split(",") if data.get(CONF_DESTINATIONS) else []
DestinationsList(destinations) ==
    IF Truthy(destinations) THEN Split(destinations) ELSE <<>>

\* res.get("station", default)
ResGetStation(res, default) ==
    IF res.station = None THEN default ELSE res.station

\* Title testing the destinations for None instead of for emptiness
Title_NotNone(station_name, destinations) ==
    IF destinations # None
    THEN <<"Train Schedule ">> \o station_name \o <<" -> ">> \o destinations
    ELSE <<"Train Schedule ">> \o station_name \o <<" (All Destinations)">>

\* the title validate_input returns
Title(station_name, destinations) ==
    IF Truthy(destinations)
    THEN <<"Train Schedule ">> \o station_name \o <<" -> ">> \o destinations
    ELSE <<"Train Schedule ">> \o station_name \o <<" (All Destinations)">>

\* Probe1Exception with the except clause logging and not raising
Probe1Exception_NotRaised(out) ==
    IF out = "ok" \/ out = "invalid_token" THEN "" ELSE ClientException(out)

\* Probe1Exception with every error but the invalid token swallowed
Probe1Exception_TokenOnly(out) ==
    IF out = "invalid_token" THEN "InvalidToken" ELSE ""

\* the first try of validate_input: the exception that leaves it, "" if none
Probe1Exception(out) ==
    IF out = "ok" THEN ""
    ELSE IF out = "invalid_token" THEN "InvalidToken"
    ELSE ClientException(out)

\* Probe2Exception with an except clause for the invalid token too
Probe2Exception_TokenToo(out) ==
    IF out = "ok" THEN ""
    ELSE IF out = "invalid_input" THEN "InvalidInput"
    ELSE IF out = "invalid_token" THEN "InvalidToken"
    ELSE ClientException(out)

\* the second try of validate_input
Probe2Exception(out) ==
    IF out = "ok" THEN ""
    ELSE IF out = "invalid_input" THEN "InvalidInput"
    ELSE ClientException(out)

\* validate_input: r1 and r2 are what the remote client does on the first and
\* on the second call
validate_input(data, r1, r2) ==
    LET probe1 == ProbeCall(data.token, SentinelStation, SentinelDestinations, r1)
        destinations_list == DestinationsList(data.destinations)
        probe2 == ProbeCall(data.token, data.station, destinations_list, r2)
        station_name == ResGetStation(r2, data.station)
    IN  IF Probe1Exception(r1.out) # ""
        THEN [exc |-> Probe1Exception(r1.out), info |-> NoInfo,
              calls |-> <<probe1>>]
        ELSE IF Probe2Exception(r2.out) # ""
        THEN [exc |-> Probe2Exception(r2.out), info |-> NoInfo,
              calls |-> <<probe1, probe2>>]
        ELSE [exc |-> "",
              info |-> [title |-> Title(station_name, data.destinations),
                        station_name |-> station_name],
              calls |-> <<probe1, probe2>>]

\* ErrorTag without the except clause for InvalidInput
ErrorTag_NoInvalidInput(exc) ==
    CASE exc = "InvalidToken" -> "invalid_token"
      [] OTHER -> "unknown"

\* ErrorTag without the except clause for InvalidToken
ErrorTag_NoInvalidToken(exc) ==
    CASE exc = "InvalidInput" -> "invalid_station_input"
      [] OTHER -> "unknown"

\* the except clauses of both steps
ErrorTag(exc) ==
    CASE exc = "InvalidToken" -> "invalid_token"
      [] exc = "InvalidInput" -> "invalid_station_input"
      [] OTHER -> "unknown"

----------------------------------------------------------------------------
\* Input Normalizer (the first lines of both submissions)

NormalizeStation(station) == Upper(Strip(station))

NormalizeDestinations(destinations) ==
    IF Truthy(destinations)
    THEN Upper(ReplaceSpace(Strip(destinations)))
    ELSE <<>>

----------------------------------------------------------------------------
\* Setup Wizard

\* what a handler leaves behind
Outcome(st, ents, cs, res) ==
    [store |-> st, entries |-> ents, calls |-> cs, result |-> res]

\* the schema's default for the token field
TokenDefault(stored_token) ==
    IF Truthy(stored_token) THEN stored_token ELSE None

\* SetupSuccess saving the token that was stored, when there is one
SetupSuccess_KeepStored(st, ents, data, info, fault) ==
    LET saved == save_token(st, Or(st, data.token), fault)
        created == HostCall("create", Len(ents) + 1, NoData, data, info.title, "ok")
    IN  IF saved.exc # ""
        THEN Outcome(saved.store, ents, saved.calls, Raised(saved.exc))
        ELSE Outcome(saved.store,
                     Append(ents, [token |-> data.token, station |-> data.station,
                                   destinations |-> data.destinations,
                                   title |-> info.title]),
                     saved.calls \o <<created>>,
                     async_create_entry(info.title, data))

\* SetupSuccess with the entry created before the token is saved
SetupSuccess_CreateFirst(st, ents, data, info, fault) ==
    LET saved == save_token(st, data.token, fault)
        created == HostCall("create", Len(ents) + 1, NoData, data, info.title, "ok")
    IN  Outcome(saved.store,
                Append(ents, [token |-> data.token, station |-> data.station,
                              destinations |-> data.destinations,
                              title |-> info.title]),
                <<created>> \o saved.calls,
                async_create_entry(info.title, data))

\* the else clause of async_step_user's try: save the token, create the entry
SetupSuccess(st, ents, data, info, fault) ==
    LET saved == save_token(st, data.token, fault)
        created == HostCall("create", Len(ents) + 1, NoData, data, info.title, "ok")
    IN  IF saved.exc # ""
        THEN Outcome(saved.store, ents, saved.calls, Raised(saved.exc))
        ELSE Outcome(saved.store,
                     Append(ents, [token |-> data.token, station |-> data.station,
                                   destinations |-> data.destinations,
                                   title |-> info.title]),
                     saved.calls \o <<created>>,
                     async_create_entry(info.title, data))

\* o, after the calls cs made before it
After(cs, o) == [o EXCEPT !.calls = cs \o o.calls]

\* ConfigFlow.async_step_user
async_step_user(user_input, st, ents, r1, r2, fault) ==
    LET loaded == get_stored_token(st, fault)
        stored_token == loaded.value
        data == [token |-> user_input.token,
                 station |-> NormalizeStation(user_input.station),
                 destinations |-> NormalizeDestinations(user_input.destinations)]
        v == validate_input(data, r1, r2)
    IN  IF loaded.exc # ""
        THEN Outcome(st, ents, loaded.calls, Raised(loaded.exc))
        ELSE IF user_input = NoInput
        THEN Outcome(st, ents, loaded.calls,
                     async_show_form("user", {}, TokenDefault(stored_token), None))
        ELSE IF v.exc # ""
        THEN Outcome(st, ents, loaded.calls \o v.calls,
                     async_show_form("user", BaseError(ErrorTag(v.exc)),
                                     TokenDefault(stored_token), None))
        ELSE After(loaded.calls \o v.calls, SetupSuccess(st, ents, data, v.info, fault))

----------------------------------------------------------------------------
\* Options Editor

\* self._entry.data
EntryData(e) ==
    [token |-> e.token, station |-> e.station, destinations |-> e.destinations]

\* ResolveToken without the fallback to the entry's token
ResolveToken_StoredOnly(stored_token, entry) == stored_token

\* ResolveToken with the entry's token taking precedence
ResolveToken_EntryFirst(stored_token, entry) == Or(entry.token, stored_token)

\* stored_token or self._entry.data.get(CONF_TOKEN)
ResolveToken(stored_token, entry) == Or(stored_token, entry.token)

\* HasToken testing `token is None` only
HasToken_NotNone(token) == token # None

\* the test `if not token`, negated
HasToken(token) == Truthy(token)

\* StationDisplay without the raw code in parentheses
StationDisplay_NameOnly(res, current_station) ==
    ResGetStation(res, current_station)

\* station_display of the initial display, when the lookup returned res
StationDisplay(res, current_station) ==
    ResGetStation(res, current_station) \o <<" (">> \o current_station \o <<")">>

\* OptionsSuccess with the reload requested before the update
OptionsSuccess_ReloadFirst(st, ents, i, data, info, fault) ==
    LET updated == [ents EXCEPT ![i] = [token |-> data.token,
                                       station |-> data.station,
                                       destinations |-> data.destinations,
                                       title |-> info.title]]
        update_call == HostCall("update", i, EntryData(ents[i]), data, info.title,
                                "ok")
        reload_call == HostCall("reload", i, EntryData(ents[i]), NoData, None, "ok")
    IN  Outcome(st, updated, <<reload_call, update_call>>,
                async_create_entry(<<>>, NoData))

\* the else clause of async_step_init's try: update the entry, reload it
OptionsSuccess(st, ents, i, data, info, fault) ==
    LET updated == [ents EXCEPT ![i] = [token |-> data.token,
                                       station |-> data.station,
                                       destinations |-> data.destinations,
                                       title |-> info.title]]
        update_call == HostCall("update", i, EntryData(ents[i]), data, info.title,
                                IF fault = "update" THEN "raise" ELSE "ok")
        reload_call == HostCall("reload", i, data, NoData, None,
                                IF fault = "reload" THEN "raise" ELSE "ok")
    IN  IF fault = "update"
        THEN Outcome(st, ents, <<update_call>>, Raised("Exception"))
        ELSE IF fault = "reload"
        THEN Outcome(st, updated, <<update_call, reload_call>>, Raised("Exception"))
        ELSE Outcome(st, updated, <<update_call, reload_call>>,
                     async_create_entry(<<>>, NoData))

\* OptionsFlowHandler.async_step_init for the entry at index i
async_step_init(i, user_input, st, ents, r1, r2, fault) ==
    LET entry == ents[i]
        loaded == get_stored_token(st, fault)
        stored_token == loaded.value
        token == ResolveToken(stored_token, entry)
        \* submission
        validate_data ==
            [token |-> token,
             station |-> NormalizeStation(user_input.station),
             destinations |-> NormalizeDestinations(user_input.destinations)]
        v == validate_input(validate_data, r1, r2)
        \* initial display
        current_station == entry.station
        lookup == ProbeCall(token, current_station,
                            DestinationsList(entry.destinations), r1)
    IN  IF user_input # NoInput
        THEN IF loaded.exc # ""
             THEN Outcome(st, ents, loaded.calls,
                          async_show_form("init", BaseError(ErrorTag(loaded.exc)),
                                          None, None))
             ELSE IF ~HasToken(token)
             THEN Outcome(st, ents, loaded.calls,
                          async_show_form("init", BaseError("no_token"), None, None))
             ELSE IF v.exc # ""
             THEN Outcome(st, ents, loaded.calls \o v.calls,
                          async_show_form("init", BaseError(ErrorTag(v.exc)),
                                          None, None))
             ELSE After(loaded.calls \o v.calls,
                        OptionsSuccess(st, ents, i, validate_data, v.info, fault))
        ELSE IF loaded.exc # ""
        THEN Outcome(st, ents, loaded.calls,
                     async_show_form("init", {}, None, current_station))
        ELSE IF r1.out # "ok"
        THEN Outcome(st, ents, loaded.calls \o <<lookup>>,
                     async_show_form("init", {}, None, current_station))
        ELSE Outcome(st, ents, loaded.calls \o <<lookup>>,
                     async_show_form("init", {}, None,
                                     StationDisplay(r1, current_station)))

----------------------------------------------------------------------------
\* Specification

\* no handler is running: the host waits for the next user interaction
NoStep == [flow |-> "none", input |-> NoInput, entry |-> 0]

Init ==
    /\ store = None
    /\ entries = <<>>
    /\ step = NoStep
    /\ calls = <<>>
    /\ result = NoResult

\* the handler `flow` ran on `input` (for the entry at index i) and left o
Finish(flow, input, i, o) ==
    /\ step = NoStep
    /\ Len(o.entries) <= MaxEntries
    /\ store' = o.store
    /\ entries' = o.entries
    /\ step' = [flow |-> flow, input |-> input, entry |-> i]
    /\ calls' = o.calls
    /\ result' = o.result

\* a response the handler does not look at
Unused == [out |-> "ok", station |-> None]

\* What the remote client does on the two probes of one validation: the second
\* probe is only made after a first one that raised nothing.
ProbeOutcomes ==
    {<<r1, Unused>> : r1 \in {r \in Responses : r.out # "ok"}}
        \cup {<<Unused, r2>> : r2 \in Responses}

\* the host shows the Setup Wizard's form
UserDisplay ==
    Finish("user", NoInput, 0,
           async_step_user(NoInput, store, entries, Unused, Unused, NoFault))

\* the user submits the Setup Wizard's form
UserSubmit ==
    \E user_input \in UserInputs, p \in ProbeOutcomes :
        Finish("user", user_input, 0,
               async_step_user(user_input, store, entries, p[1], p[2], NoFault))

\* the host shows the Options Editor's form of an entry
OptionsDisplay ==
    \E i \in 1..Len(entries), r \in Responses :
        Finish("init", NoInput, i,
               async_step_init(i, NoInput, store, entries, r, Unused, NoFault))

\* the user submits the Options Editor's form of an entry
OptionsSubmit ==
    \E i \in 1..Len(entries), user_input \in OptionsInputs, p \in ProbeOutcomes :
        Finish("init", user_input, i,
               async_step_init(i, user_input, store, entries, p[1], p[2], NoFault))

\* The handler has returned: the host takes its result, and the next user
\* interaction may start a handler.
Returned ==
    /\ step # NoStep
    /\ step' = NoStep
    /\ calls' = <<>>
    /\ result' = NoResult
    /\ UNCHANGED <<store, entries>>

Next ==
    \/ UserDisplay
    \/ UserSubmit
    \/ OptionsDisplay
    \/ OptionsSubmit
    \/ Returned

\* Token Store and host calls never fail; the remote client may.
Spec == Init /\ [][Next]_vars

\* The same handlers when one Token Store or host call of a step may raise.
UserDisplayFault ==
    Finish("user", NoInput, 0,
           async_step_user(NoInput, store, entries, Unused, Unused, "load"))

UserSubmitFault ==
    \E user_input \in UserInputs, p \in ProbeOutcomes, fault \in {"load", "save"} :
        Finish("user", user_input, 0,
               async_step_user(user_input, store, entries, p[1], p[2], fault))

OptionsDisplayFault ==
    \E i \in 1..Len(entries) :
        Finish("init", NoInput, i,
               async_step_init(i, NoInput, store, entries, Unused, Unused, "load"))

OptionsSubmitFault ==
    \E i \in 1..Len(entries), user_input \in OptionsInputs, p \in ProbeOutcomes,
       fault \in {"load", "update", "reload"} :
        Finish("init", user_input, i,
               async_step_init(i, user_input, store, entries, p[1], p[2], fault))

NextFault ==
    \/ Next
    \/ UserDisplayFault
    \/ UserSubmitFault
    \/ OptionsDisplayFault
    \/ OptionsSubmitFault

FaultSpec == Init /\ [][NextFault]_vars

----------------------------------------------------------------------------
\* The Input Normalizer and the Validator on their own: a submission's
\* user_input is drawn from every string up to MaxLen, normalised as the first
\* lines of both submissions normalise it, and handed to validate_input.

\* Longest station or destinations string typed.
MaxLen == 3

\* characters of a station field: a letter and two kinds of whitespace
StationAlphabet == {"w", " ", "\t"}

\* characters of a destinations field: the same, and the separator
DestinationsAlphabet == {"w", " ", "\t", ","}

StringsOver(alphabet) == UNION {[1..n -> alphabet] : n \in 0..MaxLen}

TypedInputs ==
    [token : Tokens, station : StringsOver(StationAlphabet),
     destinations : StringsOver(DestinationsAlphabet) \cup {None}]

PureInit ==
    /\ store = None
    /\ entries = <<>>
    /\ step \in {[flow |-> "typed", input |-> i, entry |-> 0] : i \in TypedInputs}
    /\ calls = <<>>
    /\ result = NoResult

\* lines 129-135 and 204-210: user_input is normalised in place
NormalizeInput ==
    /\ result.type = "none"
    /\ result' = [NoResult EXCEPT
                    !.type = "normalized",
                    !.data = [token |-> step.input.token,
                              station |-> NormalizeStation(step.input.station),
                              destinations |->
                                  NormalizeDestinations(step.input.destinations)]]
    /\ UNCHANGED <<store, entries, step, calls>>

\* validate_input on the normalised input; `info` is what it returns and `exc`
\* the exception it raises
ValidateInput ==
    /\ result.type = "normalized"
    /\ \E p \in ProbeOutcomes :
          LET v == validate_input(result.data, p[1], p[2])
          IN  /\ calls' = v.calls
              /\ result' = [type |-> "validated", data |-> result.data,
                            info |-> v.info, exc |-> v.exc]
    /\ UNCHANGED <<store, entries, step>>

PureNext ==
    \/ NormalizeInput
    \/ ValidateInput

PureSpec == PureInit /\ [][PureNext]_vars

----------------------------------------------------------------------------
\* What the properties below say of a step

\* the calls of the last handler to the remote client, in order
ProbeCalls == SelectSeq(calls, LAMBDA c : c.op = "probe")

\* the positions in `calls` of the calls of one kind
Positions(op) == {j \in 1..Len(calls) : calls[j].op = op}

\* the last handler was a submission of a form
Submitted(flow) == step.flow = flow /\ step.input # NoInput

\* the last handler was the initial display of a form
Displayed(flow) == step.flow = flow /\ step.input = NoInput

\* the last handler ran validate_input, and both probes returned a response
ValidationSucceeded ==
    /\ step.input # NoInput
    /\ Len(ProbeCalls) = 2
    /\ ProbeCalls[1].out = "ok"
    /\ ProbeCalls[2].out = "ok"

\* the last handler ran validate_input, and a probe raised
ValidationFailed ==
    /\ step.input # NoInput
    /\ Len(ProbeCalls) >= 1
    /\ ProbeCalls[Len(ProbeCalls)].out # "ok"

\* the form `step_id` is shown again with the one error tag
Redisplayed(step_id, tag) ==
    /\ result.type = "form"
    /\ result.step_id = step_id
    /\ result.errors = {<<"base", tag>>}

\* C1: a Setup Wizard submission on which validation succeeds makes exactly
\* one Token Store save call and exactly one entry-creation call, the save
\* before the creation, and ends with the created entry.
C1_SaveThenCreate ==
    (Submitted("user") /\ ValidationSucceeded) =>
        /\ Cardinality(Positions("save")) = 1
        /\ Cardinality(Positions("create")) = 1
        /\ \A j \in Positions("save"), k \in Positions("create") : j < k
        /\ \A j \in Positions("save") : calls[j].out = "ok"
        /\ result.type = "create_entry"

C1_Witness ==
    /\ Submitted("user")
    /\ ValidationSucceeded
    /\ result.type = "create_entry"
    /\ Positions("save") # {}
    /\ Positions("create") # {}

\* the tag the Setup Wizard and the Options Editor show for a failed validation:
\* named by what the remote client did on the probe that raised
TagOfFailure ==
    IF Len(ProbeCalls) = 1 /\ ProbeCalls[1].out = "invalid_token" THEN "invalid_token"
    ELSE IF Len(ProbeCalls) = 2 /\ ProbeCalls[2].out = "invalid_input"
    THEN "invalid_station_input"
    ELSE "unknown"

\* C2: a Setup Wizard submission on which validation fails shows the form
\* `user` again with exactly one base error tag (invalid_token for an invalid
\* token reported on probe 1, invalid_station_input for an invalid input
\* reported on probe 2, unknown otherwise), saves no token and creates no entry.
C2_FailedSetup ==
    [][(step'.flow = "user" /\ step'.input # NoInput /\ ValidationFailed') =>
          /\ Redisplayed("user", TagOfFailure)'
          /\ Positions("save")' = {}
          /\ Positions("create")' = {}
          /\ store' = store
          /\ entries' = entries]_vars

C2_Witness ==
    /\ Submitted("user")
    /\ ValidationFailed
    /\ Len(ProbeCalls) = 2
    /\ ProbeCalls[2].out = "invalid_input"
    /\ Redisplayed("user", "invalid_station_input")

\* C3: when the remote client reports an invalid token on the first probe of a
\* validation, the step ends with InvalidToken (tag invalid_token) and no second
\* probe is made; a second probe always follows a first probe that returned a
\* response.
C3_Probe2OnlyAfterProbe1 ==
    step.input # NoInput =>
        /\ Len(ProbeCalls) <= 2
        /\ (Len(ProbeCalls) >= 1 /\ ProbeCalls[1].out = "invalid_token") =>
              /\ Len(ProbeCalls) = 1
              /\ result.errors = {<<"base", "invalid_token">>}
        /\ Len(ProbeCalls) = 2 => ProbeCalls[1].out = "ok"
        /\ Len(ProbeCalls) >= 1 =>
              /\ ProbeCalls[1].station = SentinelStation
              /\ ProbeCalls[1].dests = SentinelDestinations

C3_Witness ==
    /\ step.input # NoInput
    /\ Len(ProbeCalls) = 1
    /\ ProbeCalls[1].out = "invalid_token"

\* a collaborator call of the last handler raised
SomeCallFailed == \E j \in 1..Len(calls) : calls[j].out # "ok"

\* C4: in both flows every failure of a collaborator during a step (remote
\* client, Token Store load or save, entry update, entry reload) is caught in
\* the step and becomes a redisplayed form, with an error tag when the step is
\* a submission; no failure leaves async_step_user or async_step_init.
C4_NoFailureEscapes ==
    (step # NoStep /\ SomeCallFailed) =>
        /\ result.type = "form"
        /\ step.input # NoInput => Cardinality(result.errors) = 1

OptionsUpdated ==
    /\ Submitted("init")
    /\ result.type = "create_entry"

\* C6 as claimed: the token the entry holds after a successful Options Editor
\* submission is the token it held before.
C6_SameToken ==
    [][OptionsUpdated' =>
          entries'[step'.entry].token = entries[step'.entry].token]_vars

\* C6 as amended: a successful Options Editor submission replaces the entry's
\* station, destinations and title and leaves every other entry and the Token
\* Store alone; the token the entry holds afterwards is the Token Store's
\* token when the store holds one, and the token the entry held before only
\* when the store holds none.
C6_ResolvedToken ==
    [][OptionsUpdated' =>
          LET i == step'.entry
              station == NormalizeStation(step'.input.station)
              destinations == NormalizeDestinations(step'.input.destinations)
          IN  /\ entries'[i].token =
                    IF Truthy(store) THEN store ELSE entries[i].token
              /\ entries'[i].station = station
              /\ entries'[i].destinations = destinations
              /\ entries'[i].title =
                    Title(IF ProbeCalls'[2].res = None THEN station
                          ELSE ProbeCalls'[2].res, destinations)
              /\ Len(entries') = Len(entries)
              /\ \A j \in 1..Len(entries) : j # i => entries'[j] = entries[j]
              /\ store' = store]_vars

\* an update that replaced the entry's token by the Token Store's
C6_Witness ==
    /\ OptionsUpdated
    /\ \E j \in Positions("update") :
          /\ Truthy(calls[j].old.token)
          /\ calls[j].old.token # calls[j].data.token
          /\ calls[j].data.token = store
          /\ entries[step.entry].token = store

\* C7: the Options Editor requests an entry reload only on a submission whose
\* validation succeeded, exactly once, and after the one update of the entry
\* with the new data and title; it ends with its terminal result only after
\* the reload request.
C7_ReloadAfterUpdate ==
    /\ Positions("reload") # {} =>
          /\ Submitted("init")
          /\ ValidationSucceeded
          /\ Cardinality(Positions("reload")) = 1
          /\ Cardinality(Positions("update")) = 1
          /\ \A j \in Positions("update"), k \in Positions("reload") :
                /\ j < k
                /\ calls[j].entry = step.entry
                /\ calls[k].entry = step.entry
                /\ calls[j].data.station = NormalizeStation(step.input.station)
                /\ calls[j].data.destinations =
                      NormalizeDestinations(step.input.destinations)
                /\ EntryData(entries[step.entry]) = calls[j].data
                /\ entries[step.entry].title = calls[j].title
                /\ calls[k].old = calls[j].data
    /\ (Submitted("init") /\ ValidationSucceeded) => Positions("reload") # {}
    /\ (step.flow = "init" /\ result.type = "create_entry") =>
          Positions("reload") # {}
    /\ step.flow = "user" => Positions("update") = {}

C7_Witness ==
    /\ OptionsUpdated
    /\ Positions("update") # {}
    /\ Positions("reload") # {}

\* C8 as claimed: whatever the first probe does other than report an invalid
\* token, the token counts as valid and the second probe is made.
C8_OtherOutcomesProceed ==
    (step.input # NoInput /\ Len(ProbeCalls) >= 1
        /\ ProbeCalls[1].out # "invalid_token") => Len(ProbeCalls) = 2

\* C8 as amended: when the first probe returns a response the token counts as
\* valid and the second probe is made, with the same token; when the remote
\* client reports invalid input or raises any other error on the first probe,
\* that error leaves validate_input, no second probe is made and the step shows
\* tag unknown.
C8_OnlyResponsesProceed ==
    (step.input # NoInput /\ Len(ProbeCalls) >= 1) =>
        /\ ProbeCalls[1].out = "ok" =>
              /\ Len(ProbeCalls) = 2
              /\ ProbeCalls[2].token = ProbeCalls[1].token
        /\ ProbeCalls[1].out \in {"invalid_input", "error"} =>
              /\ Len(ProbeCalls) = 1
              /\ Redisplayed(IF step.flow = "user" THEN "user" ELSE "init",
                             "unknown")

C8_Witness ==
    /\ step.input # NoInput
    /\ Len(ProbeCalls) = 1
    /\ ProbeCalls[1].out = "invalid_input"
    /\ result.errors = {<<"base", "unknown">>}

\* C9: the initial display of the Options Editor always returns the form
\* `init` with no error tag, whatever the Token Store load and the remote
\* lookup do; current_station is the resolved name followed by the raw code in
\* parentheses when the lookup returns, the raw code when the load or the
\* lookup raises; neither the entries nor the Token Store change.
C9_Display ==
    [][(step = NoStep /\ step'.flow = "init" /\ step'.input = NoInput) =>
          LET code == entries[step'.entry].station
              looked == ProbeCalls'
          IN  /\ result'.type = "form"
              /\ result'.step_id = "init"
              /\ result'.errors = {}
              /\ Len(looked) <= 1
              /\ result'.current_station =
                    IF Len(looked) = 1 /\ looked[1].out = "ok"
                    THEN (IF looked[1].res = None THEN code ELSE looked[1].res)
                            \o <<" (">> \o code \o <<")">>
                    ELSE code
              /\ store' = store
              /\ entries' = entries]_vars

C9_Witness ==
    /\ Displayed("init")
    /\ Len(ProbeCalls) = 1
    /\ ProbeCalls[1].out # "ok"
    /\ result.type = "form"
    /\ result.current_station = entries[step.entry].station

\* C10: the station code of every configuration entry is uppercase, has no
\* surrounding whitespace and is not empty.
C10_StationCode ==
    \A i \in 1..Len(entries) :
        /\ entries[i].station = Upper(entries[i].station)
        /\ entries[i].station = Strip(entries[i].station)
        /\ entries[i].station # <<>>

\* out is s in upper case
IsUpperOf(out, s) ==
    /\ Len(out) = Len(s)
    /\ \A k \in 1..Len(s) :
          out[k] = (IF s[k] = "w" THEN "W" ELSE s[k])

\* out is s without its leading and trailing whitespace
IsTrimOf(out, s) ==
    /\ \E i \in 1..Len(s) + 1, j \in 0..Len(s) :
          /\ out = SubSeq(s, i, j)
          /\ \A k \in 1..Len(s) : (k < i \/ k > j) => s[k] \in {" ", "\t"}
    /\ out # <<>> => out[1] \notin {" ", "\t"} /\ out[Len(out)] \notin {" ", "\t"}

\* s without any whitespace
WithoutWhitespace(s) == SelectSeq(s, LAMBDA c : c \notin {" ", "\t"})

\* C11: normalisation is total; the station is trimmed and uppercased; a
\* destinations value that is present and not empty has all its whitespace
\* removed and is uppercased; an empty or absent one becomes the empty string,
\* never None; normalising a normalised value changes nothing.
C11_Normalized ==
    result.type = "normalized" =>
        /\ \E t \in StringsOver(StationAlphabet) :
              /\ IsTrimOf(t, step.input.station)
              /\ IsUpperOf(result.data.station, t)
        /\ result.data.destinations # None
        /\ IF step.input.destinations \in {None, <<>>}
           THEN result.data.destinations = <<>>
           ELSE IsUpperOf(result.data.destinations,
                          WithoutWhitespace(step.input.destinations))
        /\ NormalizeStation(result.data.station) = result.data.station
        /\ NormalizeDestinations(result.data.destinations)
              = result.data.destinations

\* validate_input returned: both probes gave a response
Validated == result.type = "validated" /\ result.exc = ""

\* C12: when both probes succeed, validate_input returns as station_name the
\* `station` field of the second response, or the station code it was given
\* when the response has none, and as title "Train Schedule {station_name} ->
\* {destinations}", with the destinations string as it was given, when
\* destinations were given, else "Train Schedule {station_name} (All
\* Destinations)".
C12_TitleAndName ==
    Validated =>
        LET name == IF calls[2].res = None THEN result.data.station
                    ELSE calls[2].res
        IN  /\ result.info.station_name = name
            /\ result.info.title =
                  IF result.data.destinations = <<>>
                  THEN <<"Train Schedule ">> \o name \o <<" (All Destinations)">>
                  ELSE <<"Train Schedule ">> \o name \o <<" -> ">>
                          \o result.data.destinations

C12_Witness ==
    /\ Validated
    /\ calls[2].res = None
    /\ result.data.station = <<"W">>
    /\ result.data.destinations = <<"W", ",", "W">>
    /\ result.info.title = <<"Train Schedule ", "W", " -> ", "W", ",", "W">>

\* C13: in every Options Editor step, initial display or submission, the
\* token of every remote call is the Token Store's token when the store holds
\* one, and the entry's token only when it holds none; the form has no token
\* field, so no typed token is used.
C13_OptionsToken ==
    [][(step = NoStep /\ step'.flow = "init") =>
          /\ step'.input.token = None
          /\ \A j \in 1..Len(calls') :
                calls'[j].op = "probe" =>
                    calls'[j].token =
                        IF Truthy(store) THEN store
                        ELSE entries[step'.entry].token]_vars

\* a remote call made with the entry's token, the Token Store holding none
C13_Witness ==
    /\ step.flow = "init"
    /\ ~Truthy(store)
    /\ Truthy(entries[step.entry].token)
    /\ Len(ProbeCalls) >= 1
    /\ ProbeCalls[1].token = entries[step.entry].token

RECURSIVE JoinByComma(_)
JoinByComma(parts) ==
    IF Len(parts) = 1 THEN parts[1]
    ELSE parts[1] \o <<",">> \o JoinByComma(Tail(parts))

\* parts are the comma-separated parts of the non-empty string s
IsCommaSplitOf(parts, s) ==
    /\ Len(parts) >= 1
    /\ \A k \in 1..Len(parts) : \A n \in 1..Len(parts[k]) : parts[k][n] # ","
    /\ JoinByComma(parts) = s

\* C15: an invocation of validate_input that passes probe 1 makes exactly two
\* remote calls: first the sentinel probe with the given token for WAT and
\* [CHK], whatever the user typed, then the probe with the same token, the
\* user's station and the destination list (empty for the empty destinations
\* string, else its comma-separated parts); it writes neither the Token Store
\* nor a configuration entry.
C15_TwoProbes ==
    [][(result'.type = "validated" /\ calls'[1].out = "ok") =>
          /\ Len(calls') = 2
          /\ \A j \in 1..2 :
                /\ calls'[j].op = "probe"
                /\ calls'[j].token = result.data.token
          /\ calls'[1].station = <<"W", "A", "T">>
          /\ calls'[1].dests = << <<"C", "H", "K">> >>
          /\ calls'[2].station = result.data.station
          /\ IF result.data.destinations = <<>>
             THEN calls'[2].dests = <<>>
             ELSE IsCommaSplitOf(calls'[2].dests, result.data.destinations)
          /\ store' = store
          /\ entries' = entries]_vars

C15_Witness ==
    /\ result.type = "validated"
    /\ Len(calls) = 2
    /\ calls[1].station = <<"W", "A", "T">>
    /\ calls[2].station = <<"W">>
    /\ calls[2].dests = << <<"W">>, <<"W">> >>

\* the saves of the last handler that completed
CompletedSaves == {j \in Positions("save") : calls[j].out = "ok"}

\* C16: over any sequence of Setup Wizard and Options Editor steps, the Token
\* Store is written only by a Setup Wizard submission whose validation
\* succeeded; failed submissions, form displays and every Options Editor step
\* leave it unchanged; after a completed save it holds the saved token, so its
\* value is always the token of the most recent completed save.
C16_SingleWriter ==
    [][/\ Positions("save")' # {} =>
             /\ step'.flow = "user"
             /\ step'.input # NoInput
             /\ ValidationSucceeded'
             /\ Cardinality(Positions("save")') = 1
       /\ \A j \in CompletedSaves' : store' = calls'[j].token
       /\ CompletedSaves' = {} => store' = store]_vars

\* a save that replaced another stored token
C16_Witness ==
    /\ Submitted("user")
    /\ CompletedSaves # {}
    /\ Len(entries) = 2
    /\ Truthy(entries[1].token)
    /\ Truthy(store)
    /\ entries[1].token # store

\* C17: in both flows, tag invalid_token only follows an invalid token the
\* remote client reports on probe 1 and tag invalid_station_input only an
\* invalid input it reports on probe 2; an invalid token reported on probe 2
\* and an invalid input reported on probe 1 show as tag unknown.
C17_TagOrigins ==
    (step.input # NoInput /\ step.flow \in {"user", "init"}) =>
        /\ result.errors = {<<"base", "invalid_token">>} =>
              /\ Len(ProbeCalls) = 1
              /\ ProbeCalls[1].out = "invalid_token"
        /\ result.errors = {<<"base", "invalid_station_input">>} =>
              /\ Len(ProbeCalls) = 2
              /\ ProbeCalls[2].out = "invalid_input"
        /\ (Len(ProbeCalls) = 2 /\ ProbeCalls[2].out = "invalid_token") =>
              Redisplayed(step.flow, "unknown")
        /\ (Len(ProbeCalls) >= 1 /\ ProbeCalls[1].out = "invalid_input") =>
              Redisplayed(step.flow, "unknown")

C17_Witness ==
    /\ Submitted("init")
    /\ Len(ProbeCalls) = 2
    /\ ProbeCalls[2].out = "invalid_token"
    /\ Redisplayed("init", "unknown")

\* C18: after a successful Setup Wizard submission the token saved to the
\* Token Store, the token of the created entry and the token sent on both
\* probes are the token submitted in the form, whatever token was stored when
\* the step started.
C18_SubmittedToken ==
    (Submitted("user") /\ result.type = "create_entry") =>
        /\ store = step.input.token
        /\ \A j \in Positions("save") : calls[j].token = step.input.token
        /\ entries[Len(entries)].token = step.input.token
        /\ result.data.token = step.input.token
        /\ Len(ProbeCalls) = 2
        /\ ProbeCalls[1].token = step.input.token
        /\ ProbeCalls[2].token = step.input.token

\* a successful setup whose token differs from the one stored before it
C18_Witness ==
    /\ Submitted("user")
    /\ result.type = "create_entry"
    /\ Len(entries) = 2
    /\ Truthy(entries[1].token)
    /\ EntryData(entries[1]) = [token |-> <<"k1">>, station |-> <<"W">>,
                                destinations |-> <<>>]
    /\ step.input.token = <<"k2">>
    /\ store = <<"k2">>

====
